---------------------------- MODULE Spec2Model ----------------------------
(***************************************************************************)
(* Model of src/services/geminiService.ts: the retry executor withRetry,   *)
(* the response parser parseImageResponse and the facade                   *)
(* processMultiPartRequest that composes them around the remote call.      *)
(*                                                                         *)
(* Conventions.                                                            *)
(*  - An optional JavaScript value is a sequence of length at most one:    *)
(*    <<>> is null/undefined, <<v>> is the value v.                        *)
(*  - A string field that the code only tests for truthiness (text,        *)
(*    finishReason, blockReason, message) is "" when absent: "" and        *)
(*    undefined are both falsy.                                            *)
(*  - A numeric field that the code reads through `a || b` (status, code)  *)
(*    is 0 when absent: 0 and undefined are both falsy.                    *)
(*  - The user-facing messages of the source are Russian; string literals  *)
(*    here are ASCII, so they are transliterated, every ASCII fragment     *)
(*    (API, 429, Gemini, punctuation) kept as in the source.               *)
(***************************************************************************)
EXTENDS Integers, Sequences, FiniteSets, TLC

\* ------------------------------------------------------------ constants

MAX_RETRIES == 5

BASE_DELAY == 2000

\* Longest parts list of a modelled response.
MaxParts == 2

\* Values of Math.random() * 1000, floored: both ends of [0, 1000) and a middle.
Jitters == {0, 500, 999}

\* ------------------------------------------------------------ strings

Min(a, b) == IF a <= b THEN a ELSE b

\* String.prototype.includes: needle occurs at some position of s.
includes(s, needle) ==
    \E i \in 1..(Len(s) - Len(needle) + 1) :
        SubSeq(s, i, i + Len(needle) - 1) = needle

\* String.prototype.slice(0, n) for n >= 0.
slice0(s, n) == SubSeq(s, 1, Min(n, Len(s)))


\* ------------------------------------------------------------ errors

\* A thrown value as the catch block reads it: error?.status, error?.code,
\* error?.message. src names the throw site, which stands for the identity of
\* the JavaScript object ("remote": the API client, "parser":
\* parseImageResponse, "withRetry": the final handler).
Err(src, status, code, message) ==
    [src |-> src, status |-> status, code |-> code, message |-> message]

\* new Error(message) thrown by parseImageResponse.
ParserError(message) == Err("parser", 0, 0, message)

\* lastError before any failure (let lastError: any).
NoError == Err("none", 0, 0, "")

\* Errors the remote call is taken to reject with.
RemoteErrors ==
    { Err("remote", 429, 0, "Too Many Requests"),
      Err("remote", 503, 0, "Service Unavailable"),
      Err("remote", 0, 429, "rate limited"),
      Err("remote", 0, 503, "unavailable"),
      Err("remote", 500, 503, "Internal error"),
      Err("remote", 500, 0, "Quota"),
      Err("remote", 500, 0, "resource_exhausted"),
      Err("remote", 0, 0, "You exceeded your current quota, check your plan"),
      Err("remote", 0, 0, "RESOURCE_EXHAUSTED"),
      Err("remote", 400, 0, "Invalid quota project"),
      Err("remote", 0, 0, "got status: 429"),
      Err("remote", 404, 0, "Object 4290 not found"),
      Err("remote", 400, 0, "Bad Request"),
      Err("remote", 0, 0, "42 9 quot a RESOURCE EXHAUSTED"),
      Err("remote", 0, 0, "") }

\* const msg = error?.message || '';
msgOf(error) == error.message

\* const status = error?.status || error?.code;
statusOf(error) == IF error.status # 0 THEN error.status ELSE error.code

\* Faulty variant of isQuotaError: status 503 is not looked at.
isQuotaErrorNo503(error) ==
    \/ statusOf(error) = 429
    \/ includes(msgOf(error), "429")
    \/ includes(msgOf(error), "quota")
    \/ includes(msgOf(error), "RESOURCE_EXHAUSTED")

\* const isQuotaError = status === 429 || status === 503 || msg.includes(...)
isQuotaError(error) ==
    \/ statusOf(error) = 429
    \/ statusOf(error) = 503
    \/ includes(msgOf(error), "429")
    \/ includes(msgOf(error), "quota")
    \/ includes(msgOf(error), "RESOURCE_EXHAUSTED")

\* Faulty variant of ShouldRetry: attempt <= MAX_RETRIES.
ShouldRetryOffByOne(error, attempt) ==
    isQuotaError(error) /\ attempt <= MAX_RETRIES

\* Faulty variant of ShouldRetry: only the first failure is retried.
ShouldRetryFirstOnly(error, attempt) ==
    isQuotaError(error) /\ attempt < 1

\* Faulty variant of ShouldRetry: the classification is not consulted.
ShouldRetryAnyError(error, attempt) ==
    attempt < MAX_RETRIES

\* if (isQuotaError && attempt < MAX_RETRIES)
ShouldRetry(error, attempt) ==
    isQuotaError(error) /\ attempt < MAX_RETRIES

\* Faulty variant of Backoff: linear instead of exponential growth.
BackoffLinear(attempt, jitter) == BASE_DELAY * (attempt + 1) + jitter

\* const delay = (BASE_DELAY * Math.pow(2, attempt)) + (Math.random() * 1000);
Backoff(attempt, jitter) == BASE_DELAY * 2^attempt + jitter

\* The message of the error the final handler throws.
QuotaMessage ==
    "Prevyshen limit kvoty API (429). Server peregruzhen. "
    \o "Pozhaluysta, podozhdite 1-2 minuty i poprobuyte snova."

QuotaError == Err("withRetry", 0, 0, QuotaMessage)

\* Faulty variant of FinalError: the message of lastError is not looked at.
FinalErrorAlwaysQuota(lastErr) == QuotaError

\* The code after the loop: the value withRetry rejects with.
FinalError(lastErr) ==
    IF \/ includes(msgOf(lastErr), "429")
       \/ includes(msgOf(lastErr), "quota")
       \/ includes(msgOf(lastErr), "RESOURCE_EXHAUSTED")
    THEN QuotaError
    ELSE lastErr

\* ------------------------------------------------------------ responses

Some(v) == <<v>>

None == <<>>

\* An element of candidates[0].content.parts.
ImagePart(data, mimeType) ==
    [inlineData |-> Some([data |-> data, mimeType |-> mimeType]), text |-> ""]

TextPart(text) == [inlineData |-> None, text |-> text]

\* A text of 120 characters, longer than the excerpt the parser quotes: 100
\* digits, then 20 more characters.
LongText ==
    "01234567890123456789012345678901234567890123456789"
    \o "01234567890123456789012345678901234567890123456789"
    \o "-BEYOND-THE-EXCERPT-"

\* Parts the remote side is taken to return: two images of different
\* encodings, a plain text, a text that mentions a quota, a text longer than
\* 100 characters, a part with neither image nor text.
PartValues ==
    { ImagePart("AAAA", "image/png"),
      ImagePart("BBBB", "image/jpeg"),
      TextPart("Here is your image"),
      TextPart("Sorry, a quota of 429 apples cannot be drawn"),
      TextPart(LongText),
      TextPart("") }

PartLists == UNION { [1..n -> PartValues] : n \in 0..MaxParts }

Candidate(content, finishReason) ==
    [content |-> content, finishReason |-> finishReason]

\* Values of candidate.finishReason: absent, the reasons of the API's
\* enumeration, and a string that names a member of Object.prototype.
FinishReasons ==
    {"", "STOP", "SAFETY", "RECITATION", "OTHER", "IMAGE_SAFETY",
     "IMAGE_OTHER", "MAX_TOKENS", "toString"}

NoContentCandidates == { Candidate(None, fr) : fr \in FinishReasons }

ContentCandidates ==
    { Candidate(Some([parts |-> ps]), fr) :
        ps \in {None} \cup { Some(l) : l \in PartLists },
        fr \in {"", "SAFETY"} }

\* A later candidate that holds an image.
ImageCandidate ==
    Candidate(Some([parts |-> Some(<<ImagePart("CCCC", "image/png")>>)]), "STOP")

CandidateLists ==
    {None, Some(<<>>)}
    \cup { Some(<<c>>) : c \in NoContentCandidates \cup ContentCandidates }
    \cup { Some(<<c, ImageCandidate>>) : c \in NoContentCandidates }

PromptFeedbacks ==
    {None, Some([blockReason |-> ""]), Some([blockReason |-> "SAFETY"])}

\* What the remote call is taken to resolve with; None is a null response.
Responses ==
    {None}
    \cup { Some([candidates |-> c, promptFeedback |-> pf]) :
             c \in CandidateLists, pf \in PromptFeedbacks }

\* ------------------------------------------------------------ parser

Return(value) == [kind |-> "return", value |-> value]

Throw(message) == [kind |-> "throw", value |-> message]

MsgEmptyResponse == "Poluchen pustoy otvet ot API."

MsgBlockedPrefix == "Zapros zablokirovan: "

MsgNoVariants == "Gemini ne vernul variantov generatsii."

MsgAbortedPrefix == "Generatsiya prervana. Prichina: "

MsgNoContent == "Model vernula otvet bez kontenta."

MsgEmptyParts == "Otvet modeli soderzhit pustoy spisok elementov."

MsgTextPrefix == "Model vernula tekst vmesto izobrazheniya: \""

MsgTextSuffix == "...\""

MsgNoImage == "V otvete ne naydeno dannykh izobrazheniya."

DataUriPrefix == "data:image/png;base64,"

\* const reasons: Record<string, string> = {...}
reasons ==
    "SAFETY" :> "Zablokirovano filtrami bezopasnosti."
    @@ "RECITATION" :> "Obnaruzheno tsitirovanie."
    @@ "OTHER" :> "Inaya prichina zaversheniya."
    @@ "IMAGE_SAFETY" :> "Izobrazhenie zablokirovano filtrami bezopasnosti."
    @@ "IMAGE_OTHER" :> ("Ne udalos sgenerirovat izobrazhenie. Poprobuyte izmenit "
                         \o "zapros ili ispolzovat drugoe izobrazhenie.")

\* reasons is an object literal: reasons[key] for a key that is not one of
\* its own finds the member of Object.prototype of that name, if there is one.
\* Each is a function or an object, hence truthy; the value is its rendering
\* in the template literal of the message.
ObjectPrototype ==
    "toString" :> "function toString() { [native code] }"
    @@ "valueOf" :> "function valueOf() { [native code] }"
    @@ "constructor" :> "function Object() { [native code] }"
    @@ "hasOwnProperty" :> "function hasOwnProperty() { [native code] }"
    @@ "__proto__" :> "[object Object]"

\* reasons[finishReason] || finishReason
reasonText(finishReason) ==
    IF finishReason \in DOMAIN reasons THEN reasons[finishReason]
    ELSE IF finishReason \in DOMAIN ObjectPrototype THEN ObjectPrototype[finishReason]
    ELSE finishReason

\* for (const part of parts) { if (part.inlineData) return ... }: the index of
\* the part the loop returns at, scanning from i; 0 when it runs to the end.
RECURSIVE scanInline(_, _)
scanInline(parts, i) ==
    IF i > Len(parts) THEN 0
    ELSE IF parts[i].inlineData # None THEN i
    ELSE scanInline(parts, i + 1)

\* parts.find((p) => p.text): the index of the first part with a truthy text,
\* scanning from i; 0 when there is none.
RECURSIVE findText(_, _)
findText(parts, i) ==
    IF i > Len(parts) THEN 0
    ELSE IF parts[i].text # "" THEN i
    ELSE findText(parts, i + 1)

\* Faulty variant of parseParts: the text check comes before the image scan.
parsePartsTextFirst(parts) ==
    LET img == scanInline(parts, 1)
        txt == findText(parts, 1)
    IN  IF txt # 0
        THEN Throw(MsgTextPrefix \o slice0(parts[txt].text, 100) \o MsgTextSuffix)
        ELSE IF img # 0
        THEN Return(DataUriPrefix \o parts[img].inlineData[1].data)
        ELSE Throw(MsgNoImage)

\* Faulty variant of parseParts: the text is quoted whole.
parsePartsNoTruncation(parts) ==
    LET img == scanInline(parts, 1)
        txt == findText(parts, 1)
    IN  IF img # 0
        THEN Return(DataUriPrefix \o parts[img].inlineData[1].data)
        ELSE IF txt # 0
        THEN Throw(MsgTextPrefix \o parts[txt].text \o MsgTextSuffix)
        ELSE Throw(MsgNoImage)

\* Faulty variant of parseParts: the data URI carries the part's own type.
parsePartsKeepMime(parts) ==
    LET img == scanInline(parts, 1)
        txt == findText(parts, 1)
    IN  IF img # 0
        THEN Return("data:" \o parts[img].inlineData[1].mimeType \o ";base64,"
                    \o parts[img].inlineData[1].data)
        ELSE IF txt # 0
        THEN Throw(MsgTextPrefix \o slice0(parts[txt].text, 100) \o MsgTextSuffix)
        ELSE Throw(MsgNoImage)

\* The part of parseImageResponse after the parts list is known non-empty.
parseParts(parts) ==
    LET img == scanInline(parts, 1)
        txt == findText(parts, 1)
    IN  IF img # 0
        THEN Return(DataUriPrefix \o parts[img].inlineData[1].data)
        ELSE IF txt # 0
        THEN Throw(MsgTextPrefix \o slice0(parts[txt].text, 100) \o MsgTextSuffix)
        ELSE Throw(MsgNoImage)

\* The part of parseImageResponse from `const candidate = candidates[0]` on.
parseCandidate(candidate) ==
    IF candidate.content = None
    THEN IF candidate.finishReason # ""
         THEN Throw(MsgAbortedPrefix \o reasonText(candidate.finishReason))
         ELSE Throw(MsgNoContent)
    ELSE LET parts == candidate.content[1].parts
         IN  IF parts = None \/ Len(parts[1]) = 0
             THEN Throw(MsgEmptyParts)
             ELSE parseParts(parts[1])

\* Faulty variant of parseImageResponse: the prompt-level block reason is
\* looked at before the candidates.
parseImageResponseBlockFirst(response) ==
    IF response = None
    THEN Throw(MsgEmptyResponse)
    ELSE LET candidates == response[1].candidates
             feedback == response[1].promptFeedback
         IN  IF feedback # None /\ feedback[1].blockReason # ""
             THEN Throw(MsgBlockedPrefix \o feedback[1].blockReason)
             ELSE IF candidates = None \/ Len(candidates[1]) = 0
             THEN Throw(MsgNoVariants)
             ELSE parseCandidate(candidates[1][1])

\* Faulty variant of parseImageResponse: the prompt-level block reason is
\* not reported.
parseImageResponseNoBlockReason(response) ==
    IF response = None
    THEN Throw(MsgEmptyResponse)
    ELSE LET candidates == response[1].candidates
         IN  IF candidates = None \/ Len(candidates[1]) = 0
             THEN Throw(MsgNoVariants)
             ELSE parseCandidate(candidates[1][1])

\* const parseImageResponse = (response: any): string => {...}
parseImageResponse(response) ==
    IF response = None
    THEN Throw(MsgEmptyResponse)
    ELSE LET candidates == response[1].candidates
             feedback == response[1].promptFeedback
         IN  IF candidates = None \/ Len(candidates[1]) = 0
             THEN IF feedback # None /\ feedback[1].blockReason # ""
                  THEN Throw(MsgBlockedPrefix \o feedback[1].blockReason)
                  ELSE Throw(MsgNoVariants)
             ELSE parseCandidate(candidates[1][1])

\* ------------------------------------------------------------ request builder

MODEL_NAME == "gemini-2.5-flash-image"

ANALYSIS_MODEL_NAME == "gemini-2.5-flash"

UPSCALE_MODEL_NAME == "gemini-3-pro-image-preview"

\* The literal lit stands in s at position i.
matchesAt(s, i, lit) ==
    /\ i + Len(lit) - 1 <= Len(s)
    /\ SubSeq(s, i, i + Len(lit) - 1) = lit

\* [a-zA-Z]
Letters ==
    {"a", "b", "c", "d", "e", "f", "g", "h", "i", "j", "k", "l", "m",
     "n", "o", "p", "q", "r", "s", "t", "u", "v", "w", "x", "y", "z",
     "A", "B", "C", "D", "E", "F", "G", "H", "I", "J", "K", "L", "M",
     "N", "O", "P", "Q", "R", "S", "T", "U", "V", "W", "X", "Y", "Z"}

\* [a-zA-Z]+ from position i, greedy: the position after the run of letters
\* that starts at i (i itself when no letter stands there).
RECURSIVE lettersEnd(_, _)
lettersEnd(s, i) ==
    IF i <= Len(s) /\ SubSeq(s, i, i) \in Letters
    THEN lettersEnd(s, i + 1)
    ELSE i

\* (png|jpeg|jpg|webp)
StripExtensions == {"png", "jpeg", "jpg", "webp"}

\* Faulty variant of stripDataUri: the pattern is not anchored at the start,
\* so the first recognized prefix is removed wherever it stands.
stripDataUriUnanchored(base64Data) ==
    LET hits == { i \in 1..Len(base64Data) :
                    \E ext \in StripExtensions :
                        matchesAt(base64Data, i, "data:image/" \o ext \o ";base64,") }
    IN  IF hits = {} THEN base64Data
        ELSE LET i == CHOOSE x \in hits : \A y \in hits : x <= y
                 ext == CHOOSE x \in StripExtensions :
                            matchesAt(base64Data, i, "data:image/" \o x \o ";base64,")
             IN  SubSeq(base64Data, 1, i - 1)
                 \o SubSeq(base64Data, i + Len("data:image/" \o ext \o ";base64,"),
                           Len(base64Data))

\* Faulty variant of stripDataUri: recognized prefixes are removed for as
\* long as one leads the string.
RECURSIVE stripDataUriRepeated(_)
stripDataUriRepeated(base64Data) ==
    IF \E ext \in StripExtensions :
           matchesAt(base64Data, 1, "data:image/" \o ext \o ";base64,")
    THEN LET ext == CHOOSE x \in StripExtensions :
                        matchesAt(base64Data, 1, "data:image/" \o x \o ";base64,")
         IN  stripDataUriRepeated(
                 SubSeq(base64Data, Len("data:image/" \o ext \o ";base64,") + 1,
                        Len(base64Data)))
    ELSE base64Data

\* base64Data.replace(/^data:image\/(png|jpeg|jpg|webp);base64,/, '')
stripDataUri(base64Data) ==
    IF \E ext \in StripExtensions :
           matchesAt(base64Data, 1, "data:image/" \o ext \o ";base64,")
    THEN LET ext == CHOOSE x \in StripExtensions :
                        matchesAt(base64Data, 1, "data:image/" \o x \o ";base64,")
         IN  SubSeq(base64Data, Len("data:image/" \o ext \o ";base64,") + 1,
                    Len(base64Data))
    ELSE base64Data

\* Faulty variant of mimeTypeOf: the type is always the default.
mimeTypeOfAlwaysPng(base64Data) == "image/png"

\* base64Data.match(/^data:(image\/[a-zA-Z]+);base64,/), then
\* mimeMatch ? mimeMatch[1] : 'image/png'
mimeTypeOf(base64Data) ==
    LET j == lettersEnd(base64Data, 12)
    IN  IF /\ matchesAt(base64Data, 1, "data:image/")
           /\ j > 12
           /\ matchesAt(base64Data, j, ";base64,")
        THEN SubSeq(base64Data, 6, j - 1)
        ELSE "image/png"

\* const createImagePart = (base64Data: string) => ({ inlineData: {...} })
createImagePart(base64Data) ==
    ImagePart(stripDataUri(base64Data), mimeTypeOf(base64Data))

\* ------------------------------------------------------------ operation facade

\* The parts each facade function builds, in the order it builds them.

\* generateImageFromText(prompt, aspectRatio)
generateImageFromText(prompt) ==
    <<TextPart("Generate a high-quality image of: " \o prompt)>>

\* editImageWithPrompt(base64Image, prompt)
editImageWithPrompt(base64Image, prompt) ==
    <<createImagePart(base64Image), TextPart(prompt)>>

\* Faulty variant of stylizeImage: the reference image is pushed first.
stylizeImageReferenceFirst(sourceImage, stylePrompt, refImage) ==
    IF refImage # ""
    THEN <<createImagePart(refImage),
           createImagePart(sourceImage),
           TextPart("Transfer the artistic style of the second image to the first image. "
                    \o stylePrompt \o ". Return only the edited image.")>>
    ELSE <<createImagePart(sourceImage),
           TextPart("Transform this image into the following style: "
                    \o stylePrompt \o ". Return only the edited image.")>>

\* stylizeImage(sourceImage, stylePrompt, refImage?); refImage is "" when
\* absent (if (refImage) is false for both).
stylizeImage(sourceImage, stylePrompt, refImage) ==
    IF refImage # ""
    THEN <<createImagePart(sourceImage),
           createImagePart(refImage),
           TextPart("Transfer the artistic style of the second image to the first image. "
                    \o stylePrompt \o ". Return only the edited image.")>>
    ELSE <<createImagePart(sourceImage),
           TextPart("Transform this image into the following style: "
                    \o stylePrompt \o ". Return only the edited image.")>>

RemoveObjectInstruction ==
    "The second image shows the first image with red markings. Remove the "
    \o "objects highlighted in red from the first image and inpaint the "
    \o "background to match the surroundings seamlessly. Return only the edited image."

\* removeObjectWithMask(sourceImage, markedImage)
removeObjectWithMask(sourceImage, markedImage) ==
    <<createImagePart(sourceImage),
      createImagePart(markedImage),
      TextPart(RemoveObjectInstruction)>>

\* applyStyleToMask(sourceImage, markedImage, prompt)
applyStyleToMask(sourceImage, markedImage, prompt) ==
    <<createImagePart(sourceImage),
      createImagePart(markedImage),
      TextPart("The second image shows the first image with red markings. Edit the "
               \o "content highlighted in red in the first image to match this "
               \o "description: \"" \o prompt \o "\". Ensure the edits blend seamlessly "
               \o "with the surrounding original image. Return only the edited image.")>>

RemoveBackgroundInstruction ==
    "Remove the background from this image. Extract the main subject and place "
    \o "it on a transparent background. Return the image in PNG format with an "
    \o "alpha channel. Ensure high precision on edges. Return only the image."

\* removeBackground(sourceImage)
removeBackground(sourceImage) ==
    <<createImagePart(sourceImage), TextPart(RemoveBackgroundInstruction)>>

\* replaceBackgroundWithText(sourceImage, prompt)
replaceBackgroundWithText(sourceImage, prompt) ==
    <<createImagePart(sourceImage),
      TextPart("Keep the main subject of this image exactly as is, but replace the "
               \o "background with a scene described as: '" \o prompt \o "'. Adjust the "
               \o "lighting on the subject to match the new background naturally. "
               \o "Return only the edited image.")>>

CompositeInstruction ==
    "Composite the main subject from the first image onto the second image. The "
    \o "second image acts as the background. Scale and position the subject "
    \o "naturally within the new environment. Adjust lighting and shadows for a "
    \o "realistic blend. Return only the composite image."

\* replaceBackgroundWithImage(foregroundImage, backgroundImage)
replaceBackgroundWithImage(foregroundImage, backgroundImage) ==
    <<createImagePart(foregroundImage),
      createImagePart(backgroundImage),
      TextPart(CompositeInstruction)>>

\* restoreImage(sourceImage, instructions?); instructions is "" when absent.
restoreImage(sourceImage, instructions) ==
    LET basePrompt ==
            "Restore this old or damaged photo. Automatically fix scratches, tears, "
            \o "folds, noise and dust. Improve image clarity, sharpness, and detail."
        extraPrompt ==
            IF instructions # ""
            THEN " Additional user instructions: \"" \o instructions \o "\"."
            ELSE " If the photo is black and white, subtly colorize it if appropriate "
                 \o "or just enhance the contrast. Ensure faces are natural."
    IN  <<createImagePart(sourceImage),
          TextPart(basePrompt \o extraPrompt \o " Return only the restored image.")>>

UpscaleInstruction ==
    "Upscale this image to 4K resolution. Enhance fine details, sharpen textures, "
    \o "improve lighting and reduce noise while strictly maintaining the original "
    \o "composition, colors, and subject identity. Return only the upscaled image."

\* upscaleImage(sourceImage)
upscaleImage(sourceImage) ==
    <<createImagePart(sourceImage), TextPart(UpscaleInstruction)>>

DetectInstruction ==
    "Detect the main foreground objects in this image that a user might want to "
    \o "remove or edit. Return their bounding boxes with coordinates normalized to 0-1000."

\* detectObjects(sourceImage)
detectObjects(sourceImage) ==
    <<createImagePart(sourceImage), TextPart(DetectInstruction)>>

\* interface MixInput { base64: string; label?: string }; label is "" when
\* absent.
MixInput(base64, label) == [base64 |-> base64, label |-> label]

\* Faulty variant of pushInput: the label text is pushed before the image.
pushInputLabelFirst(built, input) ==
    IF input.label # ""
    THEN built \o <<TextPart("Reference for: " \o input.label),
                    createImagePart(input.base64)>>
    ELSE Append(built, createImagePart(input.base64))

\* The body of inputs.forEach in mixImages, applied to the parts built so far.
pushInput(built, input) ==
    IF input.label # ""
    THEN built \o <<createImagePart(input.base64),
                    TextPart("Reference for: " \o input.label)>>
    ELSE Append(built, createImagePart(input.base64))

\* inputs.forEach(...) from input i on.
RECURSIVE forEachInput(_, _, _)
forEachInput(built, inputs, i) ==
    IF i > Len(inputs) THEN built
    ELSE forEachInput(pushInput(built, inputs[i]), inputs, i + 1)

\* mixImages(inputs, prompt)
mixImages(inputs, prompt) ==
    Append(forEachInput(<<>>, inputs, 1),
           TextPart(prompt \o ". Return only the combined image."))

\* A call of a facade function: its name and its arguments. images are the
\* image arguments in declaration order, inputs the MixInput list of
\* mixImages, prompt the text argument ("" when the function has none or it
\* is left out).
FacadeCall(name, images, inputs, prompt) ==
    [name |-> name, images |-> images, inputs |-> inputs, prompt |-> prompt]

\* What a facade function hands to generateContent: the client, the model
\* and contents.parts.
Request(client, model, requestParts) ==
    [client |-> client, model |-> model, parts |-> requestParts]

RequestOf(op) ==
    CASE op.name = "generateImageFromText" ->
             Request("ai", MODEL_NAME, generateImageFromText(op.prompt))
      [] op.name = "editImageWithPrompt" ->
             Request("ai", MODEL_NAME, editImageWithPrompt(op.images[1], op.prompt))
      [] op.name = "stylizeImage" ->
             Request("ai", MODEL_NAME, stylizeImage(op.images[1], op.prompt, op.images[2]))
      [] op.name = "removeObjectWithMask" ->
             Request("ai", MODEL_NAME, removeObjectWithMask(op.images[1], op.images[2]))
      [] op.name = "applyStyleToMask" ->
             Request("ai", MODEL_NAME, applyStyleToMask(op.images[1], op.images[2], op.prompt))
      [] op.name = "removeBackground" ->
             Request("ai", MODEL_NAME, removeBackground(op.images[1]))
      [] op.name = "replaceBackgroundWithText" ->
             Request("ai", MODEL_NAME, replaceBackgroundWithText(op.images[1], op.prompt))
      [] op.name = "replaceBackgroundWithImage" ->
             Request("ai", MODEL_NAME, replaceBackgroundWithImage(op.images[1], op.images[2]))
      [] op.name = "restoreImage" ->
             Request("ai", MODEL_NAME, restoreImage(op.images[1], op.prompt))
      [] op.name = "upscaleImage" ->
             Request("upscaleAi", UPSCALE_MODEL_NAME, upscaleImage(op.images[1]))
      [] op.name = "detectObjects" ->
             Request("ai", ANALYSIS_MODEL_NAME, detectObjects(op.images[1]))
      [] op.name = "mixImages" ->
             Request("ai", MODEL_NAME, mixImages(op.inputs, op.prompt))

\* The functions whose operation builds its parts itself, each time it is
\* called; the others build them once and hand them to
\* processMultiPartRequest, whose operation sends that same array each time.
BuildsInsideOperation == {"generateImageFromText", "upscaleImage", "detectObjects"}

\* Faulty variant of SentRequest: a retry adds a part to the request.
SentRequestMarksRetry(op, built, attempt) ==
    IF attempt = 0 THEN built
    ELSE Request(built.client, built.model, Append(built.parts, TextPart("Retry.")))

\* What the call of operation() at the given attempt hands to
\* generateContent; built is what the facade function built before withRetry.
SentRequest(op, built, attempt) ==
    IF op.name \in BuildsInsideOperation THEN RequestOf(op) ELSE built

\* ------------------------------------------------------------ facade inputs

\* Longest MixInput list of a modelled mixImages call.
MaxMixInputs == 3

\* Beginnings of an image argument: none, the four prefixes the builder
\* strips, and prefixes that differ from them in type, case, shape or place.
UriPrefixes ==
    { "",
      "data:image/png;base64,",
      "data:image/jpeg;base64,",
      "data:image/jpg;base64,",
      "data:image/webp;base64,",
      "data:image/gif;base64,",
      "data:image/PNG;base64,",
      "data:image/svg+xml;base64,",
      "data:text/plain;base64,",
      "data:image/;base64,",
      "data:image/png;base64",
      " data:image/png;base64," }

\* Payloads: empty, base64 text, and one that itself begins like a data URI.
Payloads == {"", "AAAA", "iVBORw0KGgo=", "data:image/png;base64,AAAA"}

DataUris == { prefix \o payload : prefix \in UriPrefixes, payload \in Payloads }

\* Three distinguishable image arguments.
SomeUris ==
    {"data:image/png;base64,AAAA", "data:image/jpeg;base64,BBBB", "CCCC"}

MixInputs ==
    { MixInput(base64, label) :
        base64 \in {"data:image/png;base64,AAAA", "data:image/webp;base64,DDDD"},
        label \in {"", "Main Character/Subject", "Key Object/Item"} }

MixInputLists == UNION { [1..n -> MixInputs] : n \in 0..MaxMixInputs }

\* One call of each image-producing facade function.
ImageCalls ==
    LET a == "data:image/png;base64,AAAA"
        b == "data:image/jpeg;base64,BBBB"
    IN  { FacadeCall("generateImageFromText", <<>>, <<>>, "a red fox"),
          FacadeCall("editImageWithPrompt", <<a>>, <<>>, "make it night"),
          FacadeCall("stylizeImage", <<a, b>>, <<>>, "oil painting"),
          FacadeCall("removeObjectWithMask", <<a, b>>, <<>>, ""),
          FacadeCall("applyStyleToMask", <<a, b>>, <<>>, "a blue hat"),
          FacadeCall("removeBackground", <<a>>, <<>>, ""),
          FacadeCall("replaceBackgroundWithText", <<a>>, <<>>, "a beach"),
          FacadeCall("replaceBackgroundWithImage", <<a, b>>, <<>>, ""),
          FacadeCall("restoreImage", <<a>>, <<>>, ""),
          FacadeCall("upscaleImage", <<a>>, <<>>, ""),
          FacadeCall("mixImages", <<>>,
                     <<MixInput(a, "Main Character/Subject"), MixInput(b, "")>>,
                     "blend them") }

\* Calls that exercise the request builders.
BuildCalls ==
    ImageCalls
    \cup { FacadeCall("editImageWithPrompt", <<u>>, <<>>, "make it night") :
             u \in DataUris }
    \cup { FacadeCall("stylizeImage", <<u, v>>, <<>>, "oil painting") :
             u \in SomeUris, v \in SomeUris \cup {""} }
    \cup { FacadeCall(name, <<u, v>>, <<>>, "a blue hat") :
             name \in {"removeObjectWithMask", "applyStyleToMask",
                       "replaceBackgroundWithImage"},
             u \in SomeUris, v \in SomeUris }
    \cup { FacadeCall("restoreImage", <<u>>, <<>>, instructions) :
             u \in SomeUris, instructions \in {"", "keep it sepia"} }
    \cup { FacadeCall("mixImages", <<>>, inputs, "blend them") :
             inputs \in MixInputLists }

DetectCalls ==
    { FacadeCall("detectObjects", <<u>>, <<>>, "") : u \in SomeUris }

\* ------------------------------------------------------------ detection

\* A decoded JSON value: its type and, for an array, its elements.
JsonValue(type, items) == [type |-> type, items |-> items]

EmptyList == JsonValue("array", <<>>)

DetectionBox(label, ymin, xmin, ymax, xmax) ==
    [label |-> label, ymin |-> ymin, xmin |-> xmin, ymax |-> ymax, xmax |-> xmax]

\* JSON.parse on the texts the remote side is taken to return: the value, or
\* None where JSON.parse throws a SyntaxError.
JSONParse ==
    "[]" :> Some(EmptyList)
    @@ "[{\"label\":\"cat\",\"ymin\":100,\"xmin\":200,\"ymax\":300,\"xmax\":400}]"
         :> Some(JsonValue("array", <<DetectionBox("cat", 100, 200, 300, 400)>>))
    @@ " [ ] " :> Some(EmptyList)
    @@ "{\"label\":\"cat\"}" :> Some(JsonValue("object", <<>>))
    @@ "42" :> Some(JsonValue("number", <<>>))
    @@ "null" :> Some(JsonValue("null", <<>>))
    @@ "not json" :> None
    @@ "[{\"label\":\"cat\"," :> None
    @@ "Here is the list: []" :> None
    @@ "[]]" :> None

\* response.text of the responses the remote side is taken to resolve with;
\* "" is an absent or empty text.
DetectTexts == DOMAIN JSONParse \cup {""}

\* What the remote call of detectObjects is taken to resolve with.
DetectResponses == { [text |-> t] : t \in DetectTexts }

\* An exception of the JavaScript runtime thrown inside the operation and
\* caught by withRetry.
RuntimeError(message) == Err("runtime", 0, 0, message)

\* Faulty variant of decodeText: a SyntaxError of JSON.parse is rethrown.
decodeTextRethrow(text) ==
    IF text = "" THEN Return(EmptyList)
    ELSE IF JSONParse[text] # None THEN Return(JSONParse[text][1])
    ELSE Throw("Unexpected token in JSON")

\* if (!text) return []; try { return JSON.parse(text) } catch (e) { return [] }
decodeText(text) ==
    IF text = "" THEN Return(EmptyList)
    ELSE IF JSONParse[text] # None THEN Return(JSONParse[text][1])
    ELSE Return(EmptyList)

\* The operation of detectObjects after the remote call resolved with r.
detectOutcome(r) == decodeText(r.text)

\* ------------------------------------------------------------ state

VARIABLES
    pc,         \* where the withRetry invocation stands: "call" (loop top),
                \* "await" (operation in flight), "wait" (backoff timer), "done"
    attempt,    \* the loop counter of withRetry
    lastError,  \* let lastError
    delay,      \* const delay of the catch block, 0 outside a backoff wait
    calls,      \* how many times operation() has been called
    waits,      \* how many backoff timers have been started
    outcomes,   \* per call of operation(): "ok", or the catch block's
                \* isQuotaError as "transient" / "terminal"
    response,   \* const response of the operation in flight: None until the
                \* remote call resolves, then Some(the response)
    result,     \* how the promise returned by the facade settled
    operation,  \* the facade function called and its arguments
    request,    \* the client, model and parts the facade function built:
                \* None until it has built them
    sent,       \* per call of operation(): the client, model and parts it
                \* handed to generateContent
    peer,       \* a second facade call, suspended at an await while this one
                \* runs: its number and its own copy of the variables above
                \* (NoPeer when only one call is made)
    ui          \* the state of the App component (NoUi when the facade is
                \* called without it)

vars ==
    <<pc, attempt, lastError, delay, calls, waits, outcomes, response, result,
      operation, request, sent, peer, ui>>

\* The variables of one facade call.
callVars ==
    <<pc, attempt, lastError, delay, calls, waits, outcomes, response, result,
      operation, request, sent>>

NoPeer == <<>>

NoUi == <<>>

Pending == [state |-> "pending", value |-> "", error |-> NoError]

Resolved(value) == [state |-> "resolved", value |-> value, error |-> NoError]

Rejected(error) == [state |-> "rejected", value |-> "", error |-> error]

\* A facade function has been called with the arguments of op and has not
\* run yet.
Called(op) ==
    /\ pc = "build"
    /\ operation = op
    /\ request = None
    /\ attempt = 0
    /\ lastError = NoError
    /\ delay = 0
    /\ calls = 0
    /\ waits = 0
    /\ outcomes = <<>>
    /\ response = None
    /\ result = Pending
    /\ sent = <<>>

\* The call is the only one, made without the App component.
Alone == peer = NoPeer /\ ui = NoUi

\* One of the image-producing facade functions has been called.
Init == Alone /\ \E op \in ImageCalls : Called(op)

\* A facade function has been called with arguments that exercise its
\* request builder.
InitBuild == Alone /\ \E op \in BuildCalls : Called(op)

\* detectObjects has been called.
InitDetect == Alone /\ \E op \in DetectCalls : Called(op)

\* The facade function builds its parts and calls withRetry, directly or
\* through processMultiPartRequest; the loop is at its first iteration.
Build ==
    /\ pc = "build"
    /\ request' = Some(RequestOf(operation))
    /\ pc' = "call"
    /\ UNCHANGED <<attempt, lastError, delay, calls, waits, outcomes, response,
                   result, operation, sent, peer, ui>>

\* What the remote side is taken to do to a call: everything listed when the
\* call is the only one; when two calls are interleaved, for each of them a
\* rejection with status 429 or status 400, a response with an image or one
\* without candidates, and timers without jitter.
PairErrors ==
    { Err("remote", 429, 0, "Too Many Requests"),
      Err("remote", 400, 0, "Bad Request") }

PairResponses ==
    { Some([candidates |->
                Some(<<Candidate(Some([parts |->
                           Some(<<ImagePart("AAAA", "image/png")>>)]), "")>>),
            promptFeedback |-> None]),
      Some([candidates |-> None, promptFeedback |-> None]) }

\* The image data the remote side is taken to return to a call made by the
\* App component: base64 text, nothing, and data that itself begins like a
\* data URI.
UiPayloads ==
    {"AAAA", "", "data:image/png;base64,AAAA", "data:image/jpeg;base64,BBBB"}

\* For a call made by the App component: a response with one image part, of
\* either type, or one without candidates.
UiResponses ==
    { Some([candidates |->
                Some(<<Candidate(Some([parts |-> Some(<<ImagePart(B, mimeType)>>)]), "")>>),
            promptFeedback |-> None]) :
        B \in UiPayloads, mimeType \in {"image/png", "image/jpeg"} }
    \cup { Some([candidates |-> None, promptFeedback |-> None]) }

RejectionsInScope ==
    IF peer = NoPeer /\ ui = NoUi THEN RemoteErrors ELSE PairErrors

ResponsesInScope ==
    IF peer # NoPeer THEN PairResponses
    ELSE IF ui # NoUi THEN UiResponses
    ELSE Responses

JittersInScope == IF peer = NoPeer /\ ui = NoUi THEN Jitters ELSE {0}

\* The catch block of withRetry and, on break, the code after the loop.
Catch(error) ==
    /\ lastError' = error
    /\ outcomes' =
         Append(outcomes, IF isQuotaError(error) THEN "transient" ELSE "terminal")
    /\ IF ShouldRetry(error, attempt)
       THEN /\ \E jitter \in JittersInScope : delay' = Backoff(attempt, jitter)
            /\ waits' = waits + 1
            /\ pc' = "wait"
            /\ UNCHANGED result
       ELSE /\ pc' = "done"
            /\ result' = Rejected(FinalError(error))
            /\ UNCHANGED <<delay, waits>>

\* return await operation(): the operation starts and issues
\* ai.models.generateContent.
Invoke ==
    /\ pc = "call"
    /\ pc' = "await"
    /\ calls' = calls + 1
    /\ response' = None
    /\ sent' = Append(sent, SentRequest(operation, request[1], attempt))
    /\ UNCHANGED <<attempt, lastError, delay, waits, outcomes, result,
                   operation, request, peer, ui>>

\* The remote call rejects; the rejection reaches the catch block.
RemoteRejects ==
    /\ pc = "await"
    /\ \E error \in RejectionsInScope : Catch(error)
    /\ UNCHANGED <<attempt, calls, response, operation, request, sent, peer, ui>>

\* The remote call resolves; the operation returns parseImageResponse(response)
\* or lets its exception reach the catch block.
RemoteResolves ==
    /\ pc = "await"
    /\ operation.name # "detectObjects"
    /\ \E r \in ResponsesInScope :
         /\ response' = Some(r)
         /\ LET parsed == parseImageResponse(r)
            IN  IF parsed.kind = "return"
                THEN /\ pc' = "done"
                     /\ result' = Resolved(parsed.value)
                     /\ outcomes' = Append(outcomes, "ok")
                     /\ UNCHANGED <<lastError, delay, waits>>
                ELSE Catch(ParserError(parsed.value))
    /\ UNCHANGED <<attempt, calls, operation, request, sent, peer, ui>>

\* The remote call of detectObjects resolves; the operation returns the
\* decoded list, or [] for an empty or unparsable text.
DetectResolves ==
    /\ pc = "await"
    /\ operation.name = "detectObjects"
    /\ \E r \in DetectResponses :
         /\ response' = Some(r)
         /\ LET decoded == detectOutcome(r)
            IN  IF decoded.kind = "return"
                THEN /\ pc' = "done"
                     /\ result' = Resolved(decoded.value)
                     /\ outcomes' = Append(outcomes, "ok")
                     /\ UNCHANGED <<lastError, delay, waits>>
                ELSE Catch(RuntimeError(decoded.value))
    /\ UNCHANGED <<attempt, calls, operation, request, sent, peer, ui>>

\* Faulty variant of TimerFires: only the first backoff timer ever fires.
TimerFiresFirstOnly ==
    /\ pc = "wait"
    /\ attempt = 0
    /\ attempt' = attempt + 1
    /\ delay' = 0
    /\ pc' = "call"
    /\ UNCHANGED <<lastError, calls, waits, outcomes, response, operation, request,
                   sent, peer, ui, result>>

\* The setTimeout of the backoff fires: continue, attempt++, loop condition.
TimerFires ==
    /\ pc = "wait"
    /\ attempt' = attempt + 1
    /\ delay' = 0
    /\ IF attempt + 1 <= MAX_RETRIES
       THEN pc' = "call" /\ UNCHANGED result
       ELSE pc' = "done" /\ result' = Rejected(FinalError(lastError))
    /\ UNCHANGED <<lastError, calls, waits, outcomes, response, operation, request,
                   sent, peer, ui>>

Next == Build \/ Invoke \/ RemoteRejects \/ RemoteResolves \/ TimerFires

\* An image-producing facade call, from the call to its settlement.
Spec == Init /\ [][Next]_vars

\* The request builders alone, over a wider range of arguments.
SpecBuild == InitBuild /\ [][Build]_vars

\* The variables of the running facade call, as one value.
CallState ==
    [pc |-> pc, attempt |-> attempt, lastError |-> lastError, delay |-> delay,
     calls |-> calls, waits |-> waits, outcomes |-> outcomes,
     response |-> response, result |-> result, operation |-> operation,
     request |-> request, sent |-> sent]

\* The variables of a facade call that has been made with the arguments of
\* op and has not run yet.
Fresh(op) ==
    [pc |-> "build", attempt |-> 0, lastError |-> NoError, delay |-> 0,
     calls |-> 0, waits |-> 0, outcomes |-> <<>>, response |-> None,
     result |-> Pending, operation |-> op, request |-> None, sent |-> <<>>]

\* The calls made when two facade functions are called one after the other.
PairCalls ==
    { c \in ImageCalls : c.name \in {"editImageWithPrompt", "mixImages"} }

\* Two facade calls have been made; the first is about to run.
InitPair ==
    /\ ui = NoUi
    /\ \E first \in PairCalls, second \in PairCalls :
         /\ Called(first)
         /\ peer = [id |-> 2, call |-> Fresh(second)]

\* Faulty variant of Switch: lastError is one variable of the module, shared
\* by the two calls.
SwitchSharingLastError ==
    /\ peer # NoPeer
    /\ pc \in {"await", "wait", "done"}
    /\ peer.call.pc # "done"
    /\ peer' = [id |-> 3 - peer.id, call |-> CallState]
    /\ pc' = peer.call.pc
    /\ attempt' = peer.call.attempt
    /\ delay' = peer.call.delay
    /\ calls' = peer.call.calls
    /\ waits' = peer.call.waits
    /\ outcomes' = peer.call.outcomes
    /\ response' = peer.call.response
    /\ result' = peer.call.result
    /\ operation' = peer.call.operation
    /\ request' = peer.call.request
    /\ sent' = peer.call.sent
    /\ UNCHANGED <<lastError, ui>>

\* The running call is suspended at an await (of the remote call or of the
\* backoff timer) or has settled, and the event loop runs the other call,
\* each with its own locals.
Switch ==
    /\ peer # NoPeer
    /\ pc \in {"await", "wait", "done"}
    /\ peer.call.pc # "done"
    /\ peer' = [id |-> 3 - peer.id, call |-> CallState]
    /\ pc' = peer.call.pc
    /\ attempt' = peer.call.attempt
    /\ lastError' = peer.call.lastError
    /\ delay' = peer.call.delay
    /\ calls' = peer.call.calls
    /\ waits' = peer.call.waits
    /\ outcomes' = peer.call.outcomes
    /\ response' = peer.call.response
    /\ result' = peer.call.result
    /\ operation' = peer.call.operation
    /\ request' = peer.call.request
    /\ sent' = peer.call.sent
    /\ UNCHANGED ui

NextPair ==
    Switch \/ Build \/ Invoke \/ RemoteRejects \/ RemoteResolves \/ TimerFires

\* Two interleaved image-producing facade calls.
SpecPair == InitPair /\ [][NextPair]_vars

\* The images the App component holds for later operations ("" for null).
ImageState(sourceImage, generatedImage) ==
    [sourceImage |-> sourceImage, generatedImage |-> generatedImage]

\* handleGenerateSubmit has called generateImageFromText; the component
\* holds no image yet.
InitReuse ==
    /\ peer = NoPeer
    /\ ui = ImageState("", "")
    /\ \E op \in { c \in ImageCalls : c.name = "generateImageFromText" } : Called(op)

\* const result = await ...; setGeneratedImage(result); setSourceImage(result)
\* in handleGenerateSubmit and handleUpscale; setGeneratedImage(result) alone
\* in handleRestoreSubmit.
ResultStored ==
    /\ pc = "done"
    /\ result.state = "resolved"
    /\ ui' = IF operation.name = "restoreImage"
             THEN ImageState(ui.sourceImage, result.value)
             ELSE ImageState(result.value, result.value)
    /\ pc' = "idle"
    /\ UNCHANGED <<attempt, lastError, delay, calls, waits, outcomes, response,
                   result, operation, request, sent, peer>>

\* A later operation takes a stored image as its source: handleRestoreSubmit
\* calls restoreImage(sourceImage, prompt), handleUpscale calls
\* upscaleImage(generatedImage).
SourceReused ==
    /\ pc = "idle"
    /\ \E op \in { FacadeCall("restoreImage", <<ui.sourceImage>>, <<>>, ""),
                    FacadeCall("upscaleImage", <<ui.generatedImage>>, <<>>, "") } :
         /\ pc' = "build"
         /\ operation' = op
         /\ request' = None
         /\ attempt' = 0
         /\ lastError' = NoError
         /\ delay' = 0
         /\ calls' = 0
         /\ waits' = 0
         /\ outcomes' = <<>>
         /\ response' = None
         /\ result' = Pending
         /\ sent' = <<>>
    /\ UNCHANGED <<peer, ui>>

NextReuse ==
    \/ Build \/ Invoke \/ RemoteRejects \/ RemoteResolves \/ TimerFires
    \/ ResultStored \/ SourceReused

\* Operations of the App component that take the result of an earlier one as
\* their source image.
SpecReuse == InitReuse /\ [][NextReuse]_vars

\* ------------------------------------------------------------ App component

\* Most facade operations the App component starts in one run.
MaxOps == 2

\* Most different images the user uploads in one run.
MaxUploads == 1

\* enum AppMode
AppModes ==
    {"GENERATE", "STYLIZE", "CLEANUP", "MIX", "PARTIAL_STYLE", "REMOVE_BG",
     "RESTORATION"}

\* An image the user uploaded.
Upload(n) == [kind |-> "upload", n |-> n]

\* The image the facade operation number id resolved with.
ResultOf(id) == [kind |-> "result", n |-> id]

\* A mask confirmed in the mask editor while it showed the image over.
MaskOver(over) == [over |-> over]

\* A facade operation the component has started and that has not settled:
\* its number in order of start, the handler that awaits it, the mode in
\* which it was started, and the source image and the mask it was given
\* (None where it has none).
Op(id, handler, mode, source, mask) ==
    [id |-> id, handler |-> handler, mode |-> mode, source |-> source, mask |-> mask]

\* The Button component: given isLoading, it does not take clicks while that
\* is true.
ButtonDisabled(isLoading) == isLoading

\* The component is not driving a facade call step by step: the variables of
\* the call stand still.
Idle ==
    /\ pc = "idle"
    /\ operation = FacadeCall("", <<>>, <<>>, "")
    /\ request = None
    /\ attempt = 0
    /\ lastError = NoError
    /\ delay = 0
    /\ calls = 0
    /\ waits = 0
    /\ outcomes = <<>>
    /\ response = None
    /\ result = Pending
    /\ sent = <<>>

\* The component after mounting: useState initial values. started counts
\* the operations started so far, startedBeforeSwitch those started before
\* the latest mode switch.
InitUi ==
    /\ Idle
    /\ peer = NoPeer
    /\ ui = [mode |-> "GENERATE", sourceImage |-> None, generatedImage |-> None,
             maskImage |-> None, isLoading |-> FALSE, isUpscaling |-> FALSE,
             isMasking |-> FALSE, error |-> FALSE, inFlight |-> {},
             started |-> 0, startedBeforeSwitch |-> 0]

\* The component's state changes to next; no facade call is driven step by
\* step.
Render(next) == ui' = next /\ UNCHANGED <<callVars, peer>>

\* setIsLoading(true); setIsUpscaling(false); setError(null);
\* setGeneratedImage(null); then the facade function is called and awaited.
Started(handler, source, mask) ==
    [ui EXCEPT !.isLoading = TRUE, !.isUpscaling = FALSE, !.error = FALSE,
               !.generatedImage = None,
               !.inFlight = @ \cup {Op(ui.started + 1, handler, ui.mode, source, mask)},
               !.started = @ + 1]

\* handleGenerateSubmit up to its await, from the form or from Ctrl+Enter.
GenerateSubmit ==
    /\ ui.started < MaxOps
    /\ ui.mode = "GENERATE"
    /\ ~ButtonDisabled(ui.isLoading)
    /\ Render(Started("handleGenerateSubmit", None, None))

\* handleStylizeSubmit up to its await.
StylizeSubmit ==
    /\ ui.started < MaxOps
    /\ ui.mode = "STYLIZE"
    /\ ~ui.isMasking
    /\ ui.sourceImage # None
    /\ ~ButtonDisabled(ui.isLoading)
    /\ Render(Started("handleStylizeSubmit", ui.sourceImage, None))

\* handlePartialStyleSubmit up to its await.
PartialStyleSubmit ==
    /\ ui.started < MaxOps
    /\ ui.mode = "PARTIAL_STYLE"
    /\ ~ui.isMasking
    /\ ui.sourceImage # None
    /\ ui.maskImage # None
    /\ ~ButtonDisabled(ui.isLoading)
    /\ Render(Started("handlePartialStyleSubmit", ui.sourceImage, ui.maskImage))

\* handleRestoreSubmit up to its await.
RestoreSubmit ==
    /\ ui.started < MaxOps
    /\ ui.mode = "RESTORATION"
    /\ ~ui.isMasking
    /\ ui.sourceImage # None
    /\ ~ButtonDisabled(ui.isLoading)
    /\ Render(Started("handleRestoreSubmit", ui.sourceImage, None))

\* MixerMode and RemoveBgMode: the submit button or Ctrl+Enter calls a facade
\* function on the mode's own images and hands the promise to
\* handleComplexGenerate, which runs up to its await.
ComplexSubmit ==
    /\ ui.started < MaxOps
    /\ ui.mode \in {"MIX", "REMOVE_BG"}
    /\ Render(Started("handleComplexGenerate", None, None))

\* setIsMasking(true), from the buttons of the CLEANUP and PARTIAL_STYLE modes.
OpenMaskEditor ==
    /\ ui.mode \in {"CLEANUP", "PARTIAL_STYLE"}
    /\ ui.sourceImage # None
    /\ ~ui.isMasking
    /\ Render([ui EXCEPT !.isMasking = TRUE])

\* onCancel of the mask editor, or Escape.
MaskCancel ==
    /\ ui.isMasking
    /\ Render([ui EXCEPT !.isMasking = FALSE])

\* handleMaskConfirm: in CLEANUP up to its await, in PARTIAL_STYLE whole.
MaskConfirm ==
    /\ ui.isMasking
    /\ ui.sourceImage # None
    /\ ui.mode = "CLEANUP" => ui.started < MaxOps
    /\ LET closed == [ui EXCEPT !.isMasking = FALSE]
           mask == Some(MaskOver(ui.sourceImage[1]))
       IN  Render(CASE ui.mode = "CLEANUP" ->
                           [closed EXCEPT
                               !.isLoading = TRUE, !.isUpscaling = FALSE,
                               !.error = FALSE, !.generatedImage = None,
                               !.inFlight = @ \cup {Op(ui.started + 1, "handleMaskConfirm",
                                                       ui.mode, ui.sourceImage, mask)},
                               !.started = @ + 1]
                     [] ui.mode = "PARTIAL_STYLE" -> [closed EXCEPT !.maskImage = mask]
                     [] OTHER -> closed)

\* handleUpscale up to the await of upscaleImage(generatedImage).
Upscale ==
    /\ ui.started < MaxOps
    /\ ui.generatedImage # None
    /\ ~ui.isLoading
    /\ ~ui.isMasking
    /\ ~ui.isUpscaling
    /\ Render([ui EXCEPT !.isLoading = TRUE, !.isUpscaling = TRUE, !.error = FALSE,
                         !.inFlight = @ \cup {Op(ui.started + 1, "handleUpscale", ui.mode,
                                                 ui.generatedImage, None)},
                         !.started = @ + 1])

\* handleModeSwitch(newMode) applied to the state from.
Switched(from, newMode) ==
    [from EXCEPT !.mode = newMode, !.generatedImage = None, !.error = FALSE,
                 !.isMasking = FALSE, !.maskImage = None,
                 !.startedBeforeSwitch = from.started]

\* handleModeSwitch, from the navigation or Alt+1..7.
ModeSwitch ==
    /\ ui.mode \in AppModes
    /\ \E newMode \in AppModes : Render(Switched(ui, newMode))

\* handleSmartEdit, from the buttons under the shown result.
SmartEdit ==
    /\ ui.generatedImage # None
    /\ ~ui.isLoading
    /\ ~ui.isMasking
    /\ \E targetMode \in {"STYLIZE", "PARTIAL_STYLE", "CLEANUP", "REMOVE_BG"} :
         Render(Switched([ui EXCEPT !.sourceImage = ui.generatedImage], targetMode))

\* onImageSelect of the ImageUploader of the STYLIZE, CLEANUP, PARTIAL_STYLE
\* and RESTORATION modes; the one of PARTIAL_STYLE also clears the mask.
UploadSource ==
    /\ ui.mode \in {"STYLIZE", "CLEANUP", "PARTIAL_STYLE", "RESTORATION"}
    /\ ~ui.isMasking
    /\ \E n \in 1..MaxUploads :
         Render(IF ui.mode = "PARTIAL_STYLE"
                THEN [ui EXCEPT !.sourceImage = Some(Upload(n)), !.maskImage = None]
                ELSE [ui EXCEPT !.sourceImage = Some(Upload(n))])

\* The awaited facade operation resolves: the rest of the handler's try
\* block, then finally.
OpResolves ==
    \E op \in ui.inFlight :
        LET shown == Some(ResultOf(op.id))
            done == [ui EXCEPT !.inFlight = @ \ {op}, !.isLoading = FALSE,
                               !.generatedImage = shown]
        IN  Render(CASE op.handler = "handleGenerateSubmit" ->
                            [done EXCEPT !.sourceImage = shown]
                     [] op.handler = "handleUpscale" ->
                            [done EXCEPT !.sourceImage = shown, !.isUpscaling = FALSE]
                     [] OTHER -> done)

\* The awaited facade operation rejects: the handler's catch block, then
\* finally.
OpRejects ==
    \E op \in ui.inFlight :
        LET done == [ui EXCEPT !.inFlight = @ \ {op}, !.isLoading = FALSE,
                               !.error = TRUE]
        IN  Render(IF op.handler = "handleUpscale"
                   THEN [done EXCEPT !.isUpscaling = FALSE]
                   ELSE done)

NextUi ==
    \/ GenerateSubmit \/ StylizeSubmit \/ PartialStyleSubmit \/ RestoreSubmit
    \/ ComplexSubmit \/ OpenMaskEditor \/ MaskCancel \/ MaskConfirm \/ Upscale
    \/ ModeSwitch \/ SmartEdit \/ UploadSource \/ OpResolves \/ OpRejects

\* The App component, with the facade operations it starts settling in any
\* order.
SpecUi == InitUi /\ [][NextUi]_vars

\* One call of a function that goes through processMultiPartRequest and one
\* of a function that calls withRetry itself.
InitLive ==
    /\ Alone
    /\ \E op \in { c \in ImageCalls : c.name \in {"editImageWithPrompt", "upscaleImage"} } :
           Called(op)

\* The facade call under the assumptions that the program keeps running
\* (Build, Invoke), that every remote call settles and that every backoff
\* timer fires.
SpecLive ==
    /\ InitLive
    /\ [][Next]_vars
    /\ WF_vars(Build)
    /\ WF_vars(Invoke)
    /\ WF_vars(RemoteRejects \/ RemoteResolves)
    /\ WF_vars(TimerFires)

NextDetect == Build \/ Invoke \/ RemoteRejects \/ DetectResolves \/ TimerFires

\* A detectObjects call, from the call to its settlement.
SpecDetect == InitDetect /\ [][NextDetect]_vars

\* ------------------------------------------------------------ vocabulary of the properties

\* s is some text, then needle letter for letter, then some text.
contains(s, needle) ==
    \E before \in 0..Len(s) :
        /\ before + Len(needle) <= Len(s)
        /\ SubSeq(s, before + 1, before + Len(needle)) = needle

startsWith(s, prefix) ==
    Len(s) >= Len(prefix) /\ SubSeq(s, 1, Len(prefix)) = prefix

MessageSaysQuota(error) ==
    \/ contains(error.message, "429")
    \/ contains(error.message, "quota")
    \/ contains(error.message, "RESOURCE_EXHAUSTED")

\* Transient, reading "status" as the status field of the error.
TransientByStatusField(error) ==
    error.status \in {429, 503} \/ MessageSaysQuota(error)

\* Transient, reading "status" as the status field or, when that is absent
\* (or 0), the code field.
TransientByStatusOrCode(error) ==
    \/ error.status \in {429, 503}
    \/ (error.status = 0 /\ error.code \in {429, 503})
    \/ MessageSaysQuota(error)

\* The latest call of the operation failed; lastError is what it failed with.
LastCallFailed ==
    Len(outcomes) > 0 /\ outcomes[Len(outcomes)] # "ok"

Settled == pc = "done"

\* ------------------------------------------------------------ C1

\* C1: whatever the outcomes of the wrapped operation, one withRetry
\* invocation calls it at most MAX_RETRIES + 1 = 6 times and its attempt
\* counter stays within 0..MAX_RETRIES = 0..5.
C1_BoundedAttempts ==
    /\ calls <= MAX_RETRIES + 1
    /\ calls <= 6
    /\ attempt \in 0..MAX_RETRIES
    /\ attempt \in 0..5

\* All six calls were made.
C1_Witness == Settled /\ calls = 6 /\ attempt = 5

\* ------------------------------------------------------------ C2

\* C2: an attempt that fails with a non-transient error is the last call of
\* the operation, and withRetry rejects with that very error; a non-transient
\* failure of the first call leaves exactly one call.
C2_TerminalFailsFast ==
    \A i \in 1..Len(outcomes) :
        outcomes[i] = "terminal" =>
            /\ i = Len(outcomes)
            /\ calls = i
            /\ Settled
            /\ result = Rejected(lastError)
            /\ lastError.src # "withRetry"
            /\ ~TransientByStatusOrCode(lastError)

\* A first call that failed with a non-transient error from the remote side.
C2_Witness ==
    /\ outcomes = <<"terminal">>
    /\ calls = 1
    /\ lastError = Err("remote", 400, 0, "Bad Request")
    /\ result = Rejected(lastError)

\* ------------------------------------------------------------ C3

\* C3 as stated: an error is retried if and only if its status field is 429
\* or 503 or its message contains "429", "quota" or "RESOURCE_EXHAUSTED".
C3_AsStated ==
    LastCallFailed =>
        /\ (outcomes[Len(outcomes)] = "transient") <=> TransientByStatusField(lastError)
        /\ (pc = "wait" => TransientByStatusField(lastError))
        /\ (Settled /\ attempt < MAX_RETRIES => ~TransientByStatusField(lastError))

\* C3 (amended): an error is retried if and only if its status, or its code
\* when the status is absent, is 429 or 503, or its message contains, anywhere
\* and case-sensitively, "429", "quota" or "RESOURCE_EXHAUSTED"; every other
\* error ends the invocation.
C3_Classification ==
    LastCallFailed =>
        /\ (outcomes[Len(outcomes)] = "transient") <=> TransientByStatusOrCode(lastError)
        /\ (pc = "wait" => TransientByStatusOrCode(lastError))
        /\ (Settled /\ attempt < MAX_RETRIES => ~TransientByStatusOrCode(lastError))

\* The example of the claim: status 500 and a message that has "Quota" only
\* with a capital letter ends the invocation at the first call.
C3_Witness ==
    /\ Settled
    /\ calls = 1
    /\ lastError = Err("remote", 500, 0, "Quota")
    /\ result = Rejected(lastError)

\* ------------------------------------------------------------ C4

\* C4: when the 6th attempt fails with an error that is transient by status
\* 429/503 or by message substring, withRetry rejects with the quota-exceeded
\* error and never with the raw error.
C4_ExhaustionRaisesQuota ==
    (Settled /\ calls = 6 /\ LastCallFailed /\ TransientByStatusField(lastError)) =>
        /\ result = Rejected(QuotaError)
        /\ result.error # lastError

\* ------------------------------------------------------------ C5

\* C5: the wait before retry k = attempt + 1 is BASE_DELAY * 2^(k-1) plus a
\* jitter in [0, 1000): its deterministic component is the k-th of 2000,
\* 4000, 8000, 16000, 32000.
C5_BackoffDoubles ==
    pc = "wait" =>
        LET k == attempt + 1
            det == <<2000, 4000, 8000, 16000, 32000>>
        IN  /\ k \in 1..5
            /\ delay >= det[k]
            /\ delay < det[k] + 1000
            /\ det[k] = BASE_DELAY * 2^(k - 1)
            /\ k > 1 => det[k] = 2 * det[k - 1]

\* The wait before the fifth retry, with the largest jitter.
C5_Witness == pc = "wait" /\ attempt = 4 /\ delay = 32999 /\ waits = 5

\* ------------------------------------------------------------ C6

\* C6: a transient failure of a call before the 6th is never the last call,
\* so an invocation whose first call failed transiently has made 2 to 6 calls
\* when it settles.
C6_TransientIsRetried ==
    Settled =>
        /\ \A i \in 1..Len(outcomes) :
              (outcomes[i] = "transient" /\ i < 6) => calls > i
        /\ (outcomes[1] = "transient" => calls \in 2..6)

\* Two transient failures, then a success at the third call.
C6_Witness ==
    Settled /\ outcomes = <<"transient", "transient", "ok">> /\ calls = 3

\* ------------------------------------------------------------ C7

\* C7: the quota-exceeded message is raised only after exhaustion: six calls,
\* each of which failed with a transient error.
C7_QuotaOnlyAfterExhaustion ==
    (result.state = "rejected" /\ result.error.message = QuotaMessage) =>
        /\ calls = 6
        /\ outcomes = [i \in 1..6 |-> "transient"]
        /\ TransientByStatusOrCode(lastError)

\* The quota-exceeded error after six calls.
C7_Witness == result = Rejected(QuotaError) /\ calls = 6 /\ Settled

\* ------------------------------------------------------------ C8

\* C8: a failure raised by the response parser is terminal: the call whose
\* response failed parsing is the last one (the only one when it is the
\* first) and the facade rejects with the parser's own error, never with the
\* quota-exceeded error.
C8_ParserFailuresTerminal ==
    (response # None /\ LastCallFailed /\ lastError.src = "parser") =>
        /\ Settled
        /\ calls = Len(outcomes)
        /\ result = Rejected(lastError)
        /\ result.error # QuotaError

\* ------------------------------------------------------------ C9

\* What the operation in flight made of the response it received: the string
\* parseImageResponse returned or the message of the error it threw.
ParseOutcome ==
    IF LastCallFailed THEN Throw(lastError.message) ELSE Return(result.value)

\* The condition of step k of the validation order, on response r (an
\* optional value), stated on its own: no step assumes that the earlier ones
\* did not apply beyond what it needs to name the field it looks at.
HasCandidates(r) ==
    r # None /\ r[1].candidates # None /\ Len(r[1].candidates[1]) > 0

FirstCandidate(r) == r[1].candidates[1][1]

HasParts(r) ==
    /\ HasCandidates(r)
    /\ FirstCandidate(r).content # None
    /\ FirstCandidate(r).content[1].parts # None
    /\ Len(FirstCandidate(r).content[1].parts[1]) > 0

FirstParts(r) == FirstCandidate(r).content[1].parts[1]

StepHolds(r, k) ==
    CASE k = 1 -> r = None
      [] k = 2 -> r # None /\ ~HasCandidates(r)
      [] k = 3 -> HasCandidates(r) /\ FirstCandidate(r).content = None
      [] k = 4 -> HasCandidates(r) /\ FirstCandidate(r).content # None /\ ~HasParts(r)
      [] k = 5 -> HasParts(r) /\ \E i \in DOMAIN FirstParts(r) : FirstParts(r)[i].inlineData # None
      [] k = 6 -> HasParts(r) /\ \E i \in DOMAIN FirstParts(r) : FirstParts(r)[i].text # ""
      [] k = 7 -> TRUE

EarliestStep(r) ==
    CHOOSE k \in 1..7 : StepHolds(r, k) /\ \A j \in 1..(k - 1) : ~StepHolds(r, j)

\* The step an outcome belongs to, read off the returned string or the message.
StepOfOutcome(out) ==
    CASE out.kind = "return" -> 5
      [] out.kind = "throw" /\ out.value = MsgEmptyResponse -> 1
      [] out.kind = "throw" /\ out.value = MsgNoVariants -> 2
      [] out.kind = "throw" /\ startsWith(out.value, MsgBlockedPrefix) -> 2
      [] out.kind = "throw" /\ out.value = MsgNoContent -> 3
      [] out.kind = "throw" /\ startsWith(out.value, MsgAbortedPrefix) -> 3
      [] out.kind = "throw" /\ out.value = MsgEmptyParts -> 4
      [] out.kind = "throw" /\ startsWith(out.value, MsgTextPrefix) -> 6
      [] out.kind = "throw" /\ out.value = MsgNoImage -> 7
      [] OTHER -> 0

\* C9: for every response received, the outcome of parsing is the one of the
\* earliest step, in the order 1..7, whose condition holds, whatever the
\* fields that later steps look at contain.
C9_EarliestStepDecides ==
    response # None => StepOfOutcome(ParseOutcome) = EarliestStep(response[1])

\* The example of the claim: a first candidate without content fails with its
\* finish reason although a block reason is set and a later candidate holds
\* an image.
C9_Witness ==
    /\ response =
         Some(Some([candidates |-> Some(<<Candidate(None, "SAFETY"), ImageCandidate>>),
                    promptFeedback |-> Some([blockReason |-> "SAFETY"])]))
    /\ ParseOutcome = Throw(MsgAbortedPrefix \o "Zablokirovano filtrami bezopasnosti.")
    /\ result = Rejected(lastError)

\* ------------------------------------------------------------ C10

\* C10: when the parts list of the first candidate holds an inline-image
\* part, the operation returns "data:image/png;base64," followed by the bytes
\* of the first such part in list order, wherever it stands and whatever text
\* parts surround it.
C10_FirstImageWins ==
    (response # None /\ StepHolds(response[1], 5)) =>
        LET parts == FirstParts(response[1])
            first == CHOOSE i \in DOMAIN parts :
                        /\ parts[i].inlineData # None
                        /\ \A j \in 1..(i - 1) : parts[j].inlineData = None
        IN  /\ Settled
            /\ ~LastCallFailed
            /\ result = Resolved("data:image/png;base64," \o parts[first].inlineData[1].data)

\* A text part first, the image second: the image is returned.
C10_Witness ==
    /\ response # None
    /\ HasParts(response[1])
    /\ FirstParts(response[1]) =
         <<TextPart("Here is your image"), ImagePart("BBBB", "image/jpeg")>>
    /\ result = Resolved("data:image/png;base64,BBBB")

\* ------------------------------------------------------------ C11

\* C11: for a response whose candidates array is missing or empty, parsing
\* fails with a message that contains promptFeedback.blockReason when there
\* is one and with the "no generation variants" message otherwise; no image
\* is returned.
C11_NoCandidates ==
    (response # None /\ StepHolds(response[1], 2)) =>
        LET feedback == response[1][1].promptFeedback
            blocked == feedback # None /\ feedback[1].blockReason # ""
        IN  /\ LastCallFailed
            /\ lastError.src = "parser"
            /\ result.state # "resolved"
            /\ blocked => /\ lastError.message = MsgBlockedPrefix \o feedback[1].blockReason
                          /\ contains(lastError.message, feedback[1].blockReason)
            /\ ~blocked => lastError.message = MsgNoVariants

\* No candidates and a block reason SAFETY: the message contains "SAFETY".
C11_Witness ==
    /\ response =
         Some(Some([candidates |-> None,
                    promptFeedback |-> Some([blockReason |-> "SAFETY"])]))
    /\ lastError.message = "Zapros zablokirovan: SAFETY"
    /\ result = Rejected(lastError)

\* ------------------------------------------------------------ C12

KnownFinishReasons == {"SAFETY", "RECITATION", "OTHER", "IMAGE_SAFETY", "IMAGE_OTHER"}

\* C12: for a first candidate without content, parsing fails with the
\* localized message of the lookup table when finishReason is one of the five
\* known reasons (the raw enum string not in the message), with the raw
\* finishReason when it is any other non-empty value, and with the
\* "response without content" message when there is no finishReason.
C12_FinishReasonMessage ==
    (response # None /\ StepHolds(response[1], 3)) =>
        LET fr == FirstCandidate(response[1]).finishReason
        IN  /\ LastCallFailed
            /\ lastError.src = "parser"
            /\ fr \in KnownFinishReasons =>
                   /\ lastError.message = MsgAbortedPrefix \o reasons[fr]
                   /\ ~contains(lastError.message, fr)
            /\ (fr \notin KnownFinishReasons /\ fr # "") =>
                   lastError.message = MsgAbortedPrefix \o fr
            /\ fr = "" => lastError.message = MsgNoContent

\* ------------------------------------------------------------ C13

\* C13: for a non-empty parts list without an inline image, parsing fails
\* with the "text instead of image" message that quotes at most the first 100
\* characters of the first part that has text, and with the "no image data"
\* message when no part has text; for a missing or empty parts list it fails
\* with the "empty parts list" message.
C13_TextOrNothing ==
    /\ (response # None /\ StepHolds(response[1], 4)) =>
           (LastCallFailed /\ lastError.message = MsgEmptyParts)
    /\ (response # None /\ HasParts(response[1]) /\ ~StepHolds(response[1], 5)) =>
           LET parts == FirstParts(response[1])
               texts == { i \in DOMAIN parts : parts[i].text # "" }
           IN  /\ LastCallFailed
               /\ lastError.src = "parser"
               /\ texts = {} => lastError.message = MsgNoImage
               /\ texts # {} =>
                      LET first == CHOOSE i \in texts : \A j \in texts : i <= j
                          text == parts[first].text
                          excerpt == IF Len(text) <= 100 THEN text
                                     ELSE SubSeq(text, 1, 100)
                      IN  /\ lastError.message = MsgTextPrefix \o excerpt \o "...\""
                          /\ Len(excerpt) <= 100

\* A part without text, then a text of 120 characters: the message quotes
\* its first 100.
C13_Witness ==
    /\ response # None
    /\ HasParts(response[1])
    /\ FirstParts(response[1]) = <<TextPart(""), TextPart(LongText)>>
    /\ LastCallFailed
    /\ Len(lastError.message) = Len(MsgTextPrefix) + 100 + 4
    /\ startsWith(lastError.message, MsgTextPrefix \o "0123456789")
    /\ ~contains(lastError.message, "BEYOND")

\* ------------------------------------------------------------ C14

ImageProducing ==
    { "generateImageFromText", "editImageWithPrompt", "stylizeImage",
      "removeObjectWithMask", "applyStyleToMask", "removeBackground",
      "replaceBackgroundWithText", "replaceBackgroundWithImage",
      "restoreImage", "upscaleImage", "mixImages" }

\* C14: an image-producing facade operation, once settled, has either
\* resolved with a string that begins with "data:image/png;base64," or
\* rejected with an error; it resolves only when its latest call succeeded
\* and rejects whenever its latest call failed, and before it settles it is
\* pending.
C14_ImageOrError ==
    /\ operation.name \in ImageProducing
    /\ ~Settled => result = Pending
    /\ Settled =>
         /\ result.state \in {"resolved", "rejected"}
         /\ result.state = "resolved" =>
                /\ startsWith(result.value, "data:image/png;base64,")
                /\ ~LastCallFailed
                /\ result.error = NoError
         /\ result.state = "rejected" =>
                /\ LastCallFailed
                /\ result.error # NoError
                /\ result.value = ""
         /\ LastCallFailed => result.state = "rejected"

\* upscaleImage resolved with the data of a part declared image/jpeg, after
\* one failed call.
C14_Witness ==
    /\ Settled
    /\ operation.name = "upscaleImage"
    /\ calls = 2
    /\ response # None
    /\ HasParts(response[1])
    /\ FirstParts(response[1]) = <<ImagePart("BBBB", "image/jpeg")>>
    /\ result = Resolved("data:image/png;base64,BBBB")

\* ------------------------------------------------------------ C15

\* The facade function has built its request.
Built == request # None

BuiltParts == request[1].parts

\* The operation's first argument is an image, which it builds first.
FirstIsImage == Len(operation.images) >= 1

RecognizedPrefixes ==
    {"data:image/png;base64,", "data:image/jpeg;base64,",
     "data:image/jpg;base64,", "data:image/webp;base64,"}

\* The string after the first n characters of s.
dropFirst(s, n) == SubSeq(s, n + 1, Len(s))

\* C15: an image argument "data:image/<ext>;base64,P" with ext one of png,
\* jpeg, jpg, webp is built into the part with mimeType "image/<ext>" and
\* data P; an argument that does not begin with "data:" is built into the
\* part with mimeType "image/png" and the whole argument as data.
C15_RecognizedPrefix ==
    (Built /\ FirstIsImage) =>
        LET input == operation.images[1]
            part == BuiltParts[1]
        IN  /\ \A ext \in {"png", "jpeg", "jpg", "webp"} :
                   LET prefix == "data:image/" \o ext \o ";base64,"
                   IN  startsWith(input, prefix) =>
                           part = ImagePart(dropFirst(input, Len(prefix)),
                                            "image/" \o ext)
            /\ ~startsWith(input, "data:") => part = ImagePart(input, "image/png")

\* A webp data URI has been built into its payload, tagged image/webp.
C15_Witness ==
    /\ Built
    /\ operation.name = "editImageWithPrompt"
    /\ operation.images[1] = "data:image/webp;base64,iVBORw0KGgo="
    /\ BuiltParts[1] = ImagePart("iVBORw0KGgo=", "image/webp")

\* ------------------------------------------------------------ C16

\* C16: an image argument that does not begin with one of the four
\* recognized prefixes is built into a part whose data is the whole argument
\* and whose mimeType is "image/png"; the mimeType of every image part built
\* is image/png, image/jpeg, image/jpg or image/webp.
C16_UnrecognizedIsPng ==
    Built =>
        /\ FirstIsImage =>
               LET input == operation.images[1]
               IN  (\A prefix \in RecognizedPrefixes : ~startsWith(input, prefix)) =>
                       BuiltParts[1] = ImagePart(input, "image/png")
        /\ \A i \in DOMAIN BuiltParts :
               BuiltParts[i].inlineData # None =>
                   BuiltParts[i].inlineData[1].mimeType
                       \in {"image/png", "image/jpeg", "image/jpg", "image/webp"}

\* ------------------------------------------------------------ C17

\* s ends with t.
endsWith(s, t) ==
    Len(t) <= Len(s) /\ SubSeq(s, Len(s) - Len(t) + 1, Len(s)) = t

\* C17: every facade function builds its request whatever its image
\* arguments are, and the data of the part built from an image argument is
\* the argument itself or the argument without one leading recognized
\* prefix: a suffix of the argument.
C17_DataIsSuffix ==
    /\ pc # "build" => Built
    /\ (Built /\ FirstIsImage) =>
           LET input == operation.images[1]
               data == BuiltParts[1].inlineData[1].data
           IN  /\ \/ data = input
                  \/ \E prefix \in RecognizedPrefixes : input = prefix \o data
               /\ endsWith(input, data)

\* Of two recognized prefixes in a row only the leading one is removed.
C17_Witness ==
    /\ Built
    /\ FirstIsImage
    /\ operation.images[1] = "data:image/png;base64,data:image/png;base64,AAAA"
    /\ BuiltParts[1].inlineData[1].data = "data:image/png;base64,AAAA"

\* ------------------------------------------------------------ C18

\* The inputs of the mixImages call that carry a label.
Labeled(inputs) == { i \in DOMAIN inputs : inputs[i].label # "" }

\* Where the image of input i stands in the parts: after the images of the
\* inputs before it and the label texts of the labeled ones among them.
ImagePosition(inputs, i) ==
    i + Cardinality({ j \in Labeled(inputs) : j < i })

\* C18: the request built by mixImages from N inputs holds their N image
\* parts in input order, the image of a labeled input immediately followed
\* by the text part made from its label and the image of an unlabeled input
\* by no such part, and ends with the one instruction text: N + (number of
\* labeled inputs) + 1 parts in all.
C18_MixOrder ==
    (Built /\ operation.name = "mixImages") =>
        LET inputs == operation.inputs
            N == Len(inputs)
            images == { ImagePosition(inputs, i) : i \in 1..N }
            labels == { ImagePosition(inputs, i) + 1 : i \in Labeled(inputs) }
        IN  /\ Len(BuiltParts) = N + Cardinality(Labeled(inputs)) + 1
            /\ \A i \in 1..N :
                   LET at == ImagePosition(inputs, i)
                   IN  /\ BuiltParts[at] = createImagePart(inputs[i].base64)
                       /\ inputs[i].label # "" =>
                              BuiltParts[at + 1] =
                                  TextPart("Reference for: " \o inputs[i].label)
                       /\ inputs[i].label = "" => (at + 1) \notin labels
            /\ BuiltParts[Len(BuiltParts)] =
                   TextPart(operation.prompt \o ". Return only the combined image.")
            /\ \A at \in DOMAIN BuiltParts :
                   /\ BuiltParts[at].inlineData # None <=> at \in images
                   /\ BuiltParts[at].inlineData = None <=>
                          at \in labels \cup {Len(BuiltParts)}

\* A labeled, an unlabeled and another labeled input give six parts.
C18_Witness ==
    /\ Built
    /\ operation.name = "mixImages"
    /\ Len(operation.inputs) = 3
    /\ operation.inputs[1].label = "Main Character/Subject"
    /\ operation.inputs[2].label = ""
    /\ operation.inputs[3].label = "Key Object/Item"
    /\ operation.inputs[1].base64 # operation.inputs[2].base64
    /\ Len(BuiltParts) = 6
    /\ BuiltParts[2] = TextPart("Reference for: Main Character/Subject")
    /\ BuiltParts[3].inlineData # None
    /\ BuiltParts[4].inlineData # None
    /\ BuiltParts[5] = TextPart("Reference for: Key Object/Item")

\* ------------------------------------------------------------ C19

IsImageOf(part, image) == part = createImagePart(image)

IsText(part) == part.inlineData = None /\ part.text # ""

\* C19: removeObjectWithMask and applyStyleToMask build [source image,
\* marked image, text], replaceBackgroundWithImage builds [foreground image,
\* background image, text], stylizeImage builds [source, reference, text]
\* with a reference image and [source, text] without; the text is the last
\* part and every part before it is an image.
C19_FixedOrder ==
    (Built /\ operation.name \in {"removeObjectWithMask", "applyStyleToMask",
                                  "replaceBackgroundWithImage", "stylizeImage"}) =>
        LET first == operation.images[1]
            second == operation.images[2]
            n == Len(BuiltParts)
        IN  /\ IF operation.name = "stylizeImage" /\ second = ""
               THEN /\ n = 2
                    /\ IsImageOf(BuiltParts[1], first)
               ELSE /\ n = 3
                    /\ IsImageOf(BuiltParts[1], first)
                    /\ IsImageOf(BuiltParts[2], second)
            /\ IsText(BuiltParts[n])
            /\ \A i \in 1..(n - 1) : BuiltParts[i].inlineData # None

\* stylizeImage with a source and a different reference image.
C19_Witness ==
    /\ Built
    /\ operation.name = "stylizeImage"
    /\ operation.images = <<"data:image/png;base64,AAAA", "data:image/jpeg;base64,BBBB">>
    /\ Len(BuiltParts) = 3
    /\ BuiltParts[1] = ImagePart("AAAA", "image/png")
    /\ BuiltParts[2] = ImagePart("BBBB", "image/jpeg")
    /\ IsText(BuiltParts[3])

\* ------------------------------------------------------------ C20

\* The latest remote call of detectObjects resolved with a text that is
\* empty or that JSON.parse rejects.
UnparsableText ==
    /\ operation.name = "detectObjects"
    /\ response # None
    /\ \/ response[1].text = ""
       \/ JSONParse[response[1].text] = None

\* C20: when the remote call of detectObjects resolves with a text that is
\* empty or not parsable JSON, detectObjects resolves with the empty list:
\* nothing is thrown to withRetry, no wait is scheduled and no call follows
\* the one that returned the text.
C20_UnparsableIsEmptyList ==
    UnparsableText =>
        /\ Settled
        /\ result.state = "resolved"
        /\ result.value = EmptyList
        /\ ~LastCallFailed
        /\ delay = 0
        /\ calls = Len(outcomes)
        /\ waits = calls - 1

\* After one transient failure the second call returned truncated JSON.
C20_Witness ==
    /\ UnparsableText
    /\ response[1].text = "[{\"label\":\"cat\","
    /\ calls = 2
    /\ outcomes = <<"transient", "ok">>
    /\ result.state = "resolved"
    /\ result.value = EmptyList

\* ------------------------------------------------------------ C21

\* C21: whenever detectObjects has resolved, its result is a list (of
\* detection boxes); a response text that decodes to something that is not a
\* list gives the empty list.
C21_ResultIsList ==
    (operation.name = "detectObjects" /\ Settled /\ result.state = "resolved") =>
        /\ result.value.type = "array"
        /\ (response # None /\ response[1].text # ""
              /\ JSONParse[response[1].text] # None
              /\ JSONParse[response[1].text][1].type # "array") =>
               result.value = EmptyList

\* ------------------------------------------------------------ C22

\* The error carries a numeric status or code.
HasStructuredField(error) == error.status # 0 \/ error.code # 0

\* C22: when the error of a failed call carries a numeric status or code,
\* that field alone decides whether the failure is transient: it is
\* transient exactly when the field is 429 or 503, whatever the message
\* says; the message decides only when there is no status and no code.
C22_StructuredFieldFirst ==
    LastCallFailed =>
        LET field == IF lastError.status # 0 THEN lastError.status
                     ELSE lastError.code
            transient == outcomes[Len(outcomes)] = "transient"
        IN  IF HasStructuredField(lastError)
            THEN transient <=> field \in {429, 503}
            ELSE transient <=> MessageSaysQuota(lastError)

\* ------------------------------------------------------------ C24

\* C24: every call of the operation made within one facade call hands
\* generateContent the same client, the same model and the same parts in
\* the same order as the first call did: what the facade function builds
\* from its arguments.
C24_SameRequestEachAttempt ==
    /\ Len(sent) = calls
    /\ \A i \in DOMAIN sent :
           /\ sent[i] = sent[1]
           /\ sent[i].model = RequestOf(operation).model
           /\ sent[i].parts = RequestOf(operation).parts

\* mixImages has sent its four parts three times, after two transient
\* failures.
C24_Witness ==
    /\ operation.name = "mixImages"
    /\ outcomes = <<"transient", "transient">>
    /\ Len(sent) = 3
    /\ Len(sent[3].parts) = 4
    /\ sent[3] = sent[1]

\* ------------------------------------------------------------ C25

\* The calls of the operation that failed transiently at attempts 1 to 5
\* (the first MAX_RETRIES calls).
RetriedCalls ==
    { i \in DOMAIN outcomes : outcomes[i] = "transient" /\ i <= MAX_RETRIES }

\* C25: within one withRetry invocation a backoff wait is started after each
\* transient failure of calls 1 to 5 and at no other point: none before the
\* first call, none after a successful call, none after a non-transient
\* failure, none after the failure of the 6th call; while a call is in
\* flight and once the invocation has settled the number of waits is the
\* number of calls minus one.
C25_WaitsBetweenCalls ==
    /\ waits = Cardinality(RetriedCalls)
    /\ calls = 0 => waits = 0
    /\ pc = "wait" =>
           /\ delay > 0
           /\ Len(outcomes) = calls
           /\ calls \in RetriedCalls
    /\ pc # "wait" => delay = 0
    /\ (pc = "await" \/ Settled) => waits = calls - 1
    /\ Settled => \A i \in DOMAIN outcomes : i < calls => i \in RetriedCalls

\* Six calls, all failed transiently: five waits, none after the 6th.
C25_Witness ==
    /\ Settled
    /\ calls = MAX_RETRIES + 1
    /\ \A i \in DOMAIN outcomes : outcomes[i] = "transient"
    /\ waits = MAX_RETRIES
    /\ delay = 0

\* ------------------------------------------------------------ C26

\* The invocation has settled: rejected, or resolved with the value of the
\* first call of the operation that succeeded.
SettledAsContracted ==
    /\ Settled
    /\ \/ result.state = "rejected"
       \/ /\ result.state = "resolved"
          /\ outcomes[Len(outcomes)] = "ok"
          /\ \A i \in 1..(Len(outcomes) - 1) : outcomes[i] # "ok"
          /\ result.value = parseImageResponse(response[1]).value

\* C26: if every call of the operation settles and every backoff timer
\* fires, the withRetry invocation eventually settles: it resolves with the
\* value of the first successful call, or rejects.
C26_EventuallySettles == <>SettledAsContracted

\* The operation failed transiently every time it was called, and the
\* invocation settled all the same, rejected.
C26_Witness ==
    /\ Settled
    /\ result.state = "rejected"
    /\ calls = MAX_RETRIES + 1
    /\ \A i \in DOMAIN outcomes : outcomes[i] = "transient"
    /\ operation.name = "upscaleImage"

\* ------------------------------------------------------------ C23

\* The event loop goes from one call to the other: each call's variables
\* are what they were, carried over untouched.
Exchange ==
    /\ peer' # NoPeer
    /\ peer'.id = 3 - peer.id
    /\ peer'.call = CallState
    /\ CallState' = peer.call

C27_RoundTrip ==
    /\ (Settled /\ result.state = "resolved") =>
           LET B == FirstParts(response[1])[1].inlineData[1].data
           IN  /\ result.value = "data:image/png;base64," \o B
               /\ createImagePart(result.value) = ImagePart(B, "image/png")
    /\ (Built /\ operation.name \in {"restoreImage", "upscaleImage"}) =>
           \E B \in UiPayloads :
               /\ operation.images[1] = "data:image/png;base64," \o B
               /\ BuiltParts[1] = ImagePart(B, "image/png")

\* A result whose data itself begins like a data URI has been taken as the
\* source of restoreImage: only the parser's own prefix is removed.
C27_Witness ==
    /\ Built
    /\ operation.name = "restoreImage"
    /\ operation.images[1] = "data:image/png;base64,data:image/png;base64,AAAA"
    /\ BuiltParts[1] = ImagePart("data:image/png;base64,AAAA", "image/png")

\* ------------------------------------------------------------ C28

\* C28: in the App component isLoading is true whenever a facade operation
\* it started has not settled, and at most one such operation is in flight.
C28_LoadingTracksInFlight ==
    ui # NoUi =>
        /\ ui.inFlight # {} => ui.isLoading
        /\ Cardinality(ui.inFlight) <= 1

\* ------------------------------------------------------------ C29

\* C29: the image held as generatedImage is the result of an operation
\* started in the current mode, after the latest mode switch, and no later
\* than the most recently started one: once a mode switch has cleared
\* generatedImage, an operation started before the switch does not fill it.
C29_ResultOfCurrentRequest ==
    (ui # NoUi /\ ui.generatedImage # None) =>
        /\ ui.generatedImage[1].kind = "result"
        /\ ui.generatedImage[1].n > ui.startedBeforeSwitch
        /\ ui.generatedImage[1].n <= ui.started

\* ------------------------------------------------------------ C30

\* C30: a mask held as maskImage was confirmed over the image held as
\* sourceImage, and applyStyleToMask is called only with a mask confirmed
\* over the source image it is called with.
C30_MaskBelongsToSource ==
    ui # NoUi =>
        /\ ui.maskImage # None =>
               /\ ui.sourceImage # None
               /\ ui.maskImage[1].over = ui.sourceImage[1]
        /\ \A op \in ui.inFlight :
               op.handler = "handlePartialStyleSubmit" =>
                   op.mask[1].over = op.source[1]

=============================================================================
